---------------------------- MODULE Spec2Model ----------------------------
(***************************************************************************)
(* The capture -> encode -> delivery pipeline of the 24/7 camera streaming *)
(* server (camera_streaming_server_guide.md): CameraCapture.run,           *)
(* StreamEncoder.run, WebServer.generate_stream and the queues that        *)
(* ProcessManager.setup_queues creates.                                    *)
(*                                                                         *)
(* A multiprocessing.Queue(maxsize) is a FIFO sequence; put(block=False)   *)
(* raises Full when the queue holds maxsize items, put(block=True) waits,  *)
(* get removes and returns the head.  The pixel buffer of a frame is not   *)
(* modelled: a frame is its frame_number and its timestamp.                *)
(***************************************************************************)
EXTENDS Naturals, Sequences, FiniteSets

(* ---- bounds of the model ---- *)

\* successful camera.read() calls
MaxReads == 3
\* successful camera.read() calls in the backlog specification, where a quality
\* queue has to fill
MaxLoadReads == 6
\* camera.read() calls that fail on an open camera
MaxReadFails == 2
\* initialize_camera calls that use up all their attempts
MaxInitFails == 1
\* encode_frame calls that raise
MaxEncodeErrors == 1
\* commands the environment puts on the camera control queue
MaxCmds == 1
\* HTTP viewers running generate_stream
NumViewers == 2
\* config.yaml processing.buffer_size (10 in the shipped configuration)
buffer_size == 2
\* commands put on the camera control queue in the control specification, where
\* a command has to wait behind another one
MaxControlCmds == 2
\* successful camera.read() calls while the process manager shuts down
MaxShutdownReads == 2
\* health sweeps that find a given process dead
MaxDeadPolls == 4
\* POST /recordings requests made
MaxRequests == 2
\* clicks on startCameraBtn
MaxCameraClicks == 2
\* MediaRecorders created by startRecording
MaxRecordings == 2

(* ---- program constants ---- *)

\* CameraCapture.initialize_camera: max_attempts = 5
max_attempts == 5
\* ProcessManager.setup_queues: Queue(maxsize=5) per quality
StreamQueueMaxsize == 5
\* config.yaml processing.encoder_workers
encoder_workers == 2
\* config.yaml streaming.formats, in configured order
Formats == <<"hd", "sd">>
\* config.yaml monitoring.restart_attempts
restart_attempts == 3
\* limits.fileSize: parseInt(process.env.MAX_FILE_SIZE || 104857600)
MAX_FILE_SIZE == 104857600

QualityNames == {Formats[i] : i \in 1..Len(Formats)}
Encoders == 0..(encoder_workers - 1)
Viewers == 1..NumViewers
\* (mutant) the whole pool of workers
OneWorker_Pool == Encoders
\* the workers when processing.encoder_workers is 1
OneWorker == {0}
Commands == {"stop", "restart"}
NoFrame == [frame_number |-> 0, timestamp |-> 0, none |-> TRUE]
\* ProcessManager.processes, in the order start_all fills it (the order stop_all
\* walks it)
ProcessOrder == <<"camera", "encoder_0", "encoder_1", "webserver">>
ProcessNames == {ProcessOrder[i] : i \in 1..Len(ProcessOrder)}
\* the encoder_id of the process named f'encoder_{i}'
EncoderId(name) == CASE name = "encoder_0" -> 0 [] name = "encoder_1" -> 1

VARIABLES
  cpc,            \* position of CameraCapture.run
  attempts,       \* initialize_camera: attempts (0 outside initialize_camera)
  camera,         \* self.camera: "none", "open", "unopened", "released"
  frame_count,    \* run: frame_count
  now,            \* time.time() at the next stamp: later at every stamped frame
  raw_frames,     \* queues['raw_frames']
  streams,        \* queues['streams'][quality]
  camera_control, \* queues['camera_control']
  epc,            \* position of each StreamEncoder.run: "get" or "encode"
  eframe,         \* frame_data held by each encoder
  efmt,           \* index in config['streaming']['formats'] of each encoder
  reads,          \* history: successful reads
  readFails,      \* history: failed reads on an open camera
  initFails,      \* history: initialize_camera calls that returned False
  encodeErrors,   \* history: encode_frame calls that raised
  cmds,           \* history: commands put on the control queue
  published,      \* history: frames put on raw_frames, in order
  rawDropped,     \* history: frames skipped on a full raw_frames
  taken,          \* history: frame numbers got from raw_frames, in order
  emitted,        \* history: per quality, the frames put on its queue
  outcome,        \* history: per (frame number, quality): none/put/dropped/failed
  capTrace,       \* history: the capture supervisor's states, in order
  openHandles,    \* history: camera handles opened and not released by release()
  sinceStop,      \* history: whether a watched 'stop' was put on the control
                  \* queue, how many commands were ahead of it, and the
                  \* frames read and the open attempts made since
  web,            \* the web server process: "running" or "killed"
  running,        \* ProcessManager.running
  mpc,            \* position of the main process: "monitor", "stop_all", "exited"
  caller,         \* who called stop_all: "none", "signal", "finally"
  sidx,           \* stop_all: index in ProcessOrder of the process being stopped
  sstep,          \* stop_all: "terminate", "join" or "check" (is_alive / kill)
  sigterm,        \* processes with a SIGTERM sent by terminate() and not yet delivered
  joined,         \* history: processes stop_all has waited for (join)
  deadSeen,       \* history: per process, the health sweeps that found it dead
  starts,         \* history: per process, the calls of Process.start()
  yielded,        \* history: per quality, the frames generate_stream yielded
  gcsConfig,      \* server.js gcsConfig: "unset" before startup, "config", "undefined"
  listening,      \* server.js: app.listen has been called
  sclock,         \* Date.now() of the upload server: later at every reading
  requests,       \* per POST /recordings: its position, file, error and result
  responses,      \* per POST /recordings: the responses sent, in order
  bucket,         \* the storage bucket: per request, the object it wrote
  uploadCalls,    \* history: per request, the calls of uploadToGCS
  hidx,           \* monitor_health: index in ProcessOrder of the process the
                  \* sweep looks at next (0: at the while test or asleep)
  stream,         \* CameraRecorder.stream: 0 (null) or a MediaStream
  mediaRecorder,  \* CameraRecorder.mediaRecorder: 0 (null) or a MediaRecorder
  recordedChunks, \* CameraRecorder.recordedChunks
  recordings,     \* CameraRecorder.recordings
  disabled,       \* per button of the page: its disabled attribute
  indicator,      \* recordingIndicator has class 'active'
  uploadProgress, \* uploadProgress has class 'show'
  statusMessage,  \* statusMessage: whether shown, and its type
  recordingsList, \* the children of recordingsList, first child first
  gumPending,     \* browser: getUserMedia calls not settled yet
  cameraClicks,   \* history: clicks on startCameraBtn
  liveTracks,     \* browser: the MediaStreams whose tracks are live
  streamsMade,    \* browser: MediaStreams handed out by getUserMedia
  recorders,      \* browser: per MediaRecorder, its state and its stream
  uploads         \* per recording: the file given to uploadFile and how the
                  \* fetch ended

vars == <<cpc, attempts, camera, frame_count, now, raw_frames, streams,
          camera_control, epc, eframe, efmt, reads, readFails, initFails,
          encodeErrors, cmds, published,
          rawDropped, taken, emitted, outcome, capTrace, openHandles,
          sinceStop, web, running, mpc, caller, sidx, sstep, sigterm, joined,
          deadSeen, starts, yielded, gcsConfig, listening, sclock, requests,
          responses, bucket, uploadCalls, hidx, stream, mediaRecorder,
          recordedChunks, recordings, disabled, indicator, uploadProgress,
          statusMessage, recordingsList, gumPending, cameraClicks, liveTracks,
          streamsMade, recorders, uploads>>

captureVars == <<cpc, attempts, camera, frame_count, now, reads, readFails,
                 initFails, capTrace, openHandles>>
encoderVars == <<epc, eframe, efmt>>
managerVars == <<web, running, mpc, caller, sidx, sstep, sigterm, joined,
                 deadSeen, starts, hidx>>
uploadVars == <<gcsConfig, listening, sclock, requests, responses, bucket,
                uploadCalls>>
recorderVars == <<stream, mediaRecorder, recordedChunks, recordings, disabled,
                  indicator, uploadProgress, statusMessage, recordingsList,
                  gumPending, cameraClicks, liveTracks, streamsMade, recorders,
                  uploads>>

(* ---- queue operations ---- *)

\* (mutant) a put that ignores maxsize
QueuePut_NoLimit(q, maxsize, item) ==
  [queue |-> Append(q, item), full |-> FALSE]

\* (mutant) a put that makes room by evicting the oldest item
QueuePut_EvictOldest(q, maxsize, item) ==
  IF Len(q) < maxsize
    THEN [queue |-> Append(q, item), full |-> FALSE]
    ELSE [queue |-> Append(Tail(q), item), full |-> FALSE]

\* Queue.put(item, block): the queue after the call and whether Full was raised.
\* A blocking put on a full queue waits: see PutWaits.
QueuePut(q, maxsize, item) ==
  IF Len(q) < maxsize
    THEN [queue |-> Append(q, item), full |-> FALSE]
    ELSE [queue |-> q, full |-> TRUE]

\* Queue.put waits (the caller cannot proceed) when block is set and no slot is free
PutWaits(q, maxsize, block) == block /\ Len(q) >= maxsize

\* (mutant) a get that leaves the item on the queue
QueueGet_Peek(q) == [item |-> Head(q), queue |-> q]

\* Queue.get(): the item returned and the queue after the call
QueueGet(q) == [item |-> Head(q), queue |-> Tail(q)]

\* (mutant) a blocking put in the capture loop
CapturePutBlock_Blocking == TRUE

\* the block argument of frame_queue.put in CameraCapture.run
CapturePutBlock == FALSE

\* (mutant) a blocking put in the encoder loop
EncoderPutBlock_Blocking == TRUE

\* the block argument of output_queues[quality_name].put in StreamEncoder.run
EncoderPutBlock == FALSE

(* ---- capture supervisor ---- *)

\* frame_data built by CameraCapture.run
FrameData(count, ts) == [frame_number |-> count, timestamp |-> ts, none |-> FALSE]

\* (mutant) the counter is never advanced
NextFrameCount_NoIncrement(count, full) == count

\* (mutant) the counter is advanced for a skipped frame too
NextFrameCount_AlwaysIncrement(count, full) == count + 1

\* frame_count after the put: incremented only inside the try, after put succeeded
NextFrameCount(count, full) == IF full THEN count ELSE count + 1

\* The states of the capture supervisor, from the position in run
CaptureStateOf(pc) ==
  CASE pc \in {"init", "restart_init", "reinit"} -> "Connecting"
    [] pc \in {"loop", "read"} -> "Streaming"
    [] pc = "reconnect" -> "Reconnecting"
    [] pc = "failed" -> "Disconnected"
    [] pc \in {"closing", "stopped"} -> "Stopped"
    [] pc = "killed" -> "Killed"

CaptureState == CaptureStateOf(cpc)

\* history of the supervisor's states: a state is appended when it changes
TraceTo(pc) ==
  IF CaptureStateOf(pc) = CaptureState THEN capTrace
  ELSE Append(capTrace, CaptureStateOf(pc))

\* (mutant) a failed startup is retried from the beginning
AfterInit_StartupRetried(pc, ok) ==
  CASE pc = "init" -> IF ok THEN "loop" ELSE "init"
    [] pc = "restart_init" -> "read"
    [] pc = "reinit" -> "loop"

\* where initialize_camera returns to: line 172 (run start), 186 (restart), 195 (read failure)
AfterInit(pc, ok) ==
  CASE pc = "init" -> IF ok THEN "loop" ELSE "failed"
    [] pc = "restart_init" -> "read"
    [] pc = "reinit" -> "loop"

\* (mutant) after a failed read the loop continues without initialize_camera
AfterReconnect_NoInit == "loop"

\* run: after release() and sleep(1) of a failed read, initialize_camera is entered
AfterReconnect == "reinit"

InInit == cpc \in {"init", "restart_init", "reinit"}

\* cv2.VideoCapture(source) with isOpened(): one more handle holds the device
OpenHandle(n) == n + 1

\* (mutant) release() leaves the device open
ReleaseHandle_Leak(cam, n) == n

\* self.camera.release(): closes the device if this handle holds it
ReleaseHandle(cam, n) == IF cam = "open" THEN n - 1 ELSE n

\* no watched 'stop' was put on the control queue yet
NoStop == [put |-> FALSE, state |-> "none", ahead |-> 0, reads |-> 0, opens |-> 0]

\* the first watched 'stop' is put on control queue q: the supervisor's state
\* and the commands ahead of it are noted
AfterStopPut(ss, q, state) ==
  IF ss.put THEN ss
  ELSE [put |-> TRUE, state |-> state, ahead |-> Len(q), reads |-> 0, opens |-> 0]

\* a frame was read / an open attempt was made: counted once 'stop' was put
CountRead(ss) == IF ss.put THEN [ss EXCEPT !.reads = @ + 1] ELSE ss

CountOpen(ss) == IF ss.put THEN [ss EXCEPT !.opens = @ + 1] ELSE ss

\* initialize_camera: cv2.VideoCapture(source) opened the camera: return True
CaptureOpenOk ==
  /\ InInit
  /\ attempts < max_attempts
  /\ camera' = "open"
  /\ attempts' = 0
  /\ cpc' = AfterInit(cpc, TRUE)
  /\ capTrace' = TraceTo(cpc')
  /\ openHandles' = OpenHandle(openHandles)
  /\ sinceStop' = CountOpen(sinceStop)
  /\ UNCHANGED <<managerVars, yielded, uploadVars, recorderVars>>
  /\ UNCHANGED <<readFails, initFails, encodeErrors, frame_count, now, reads, cmds, raw_frames, streams,
                 camera_control, encoderVars, published, rawDropped, taken,
                 emitted, outcome>>

\* initialize_camera: the camera did not open (or the attempt raised):
\* attempts += 1, sleep(reconnect_delay)
CaptureOpenFail ==
  /\ InInit
  /\ attempts < max_attempts
  /\ (attempts + 1 < max_attempts) \/ (initFails < MaxInitFails)
  /\ camera' = "unopened"
  /\ attempts' = attempts + 1
  /\ sinceStop' = CountOpen(sinceStop)
  /\ UNCHANGED <<openHandles, managerVars, yielded, uploadVars, recorderVars>>
  /\ UNCHANGED <<readFails, initFails, encodeErrors, cpc, capTrace, frame_count, now, reads, cmds,
                 raw_frames, streams,
                 camera_control, encoderVars, published, rawDropped, taken,
                 emitted, outcome>>

\* initialize_camera: attempts reached max_attempts: return False
CaptureInitExhausted ==
  /\ InInit
  /\ attempts >= max_attempts
  /\ cpc' = AfterInit(cpc, FALSE)
  /\ initFails' = initFails + 1
  /\ attempts' = 0
  /\ capTrace' = TraceTo(cpc')
  /\ UNCHANGED <<openHandles, sinceStop, managerVars, yielded, uploadVars, recorderVars>>
  /\ UNCHANGED <<readFails, encodeErrors, camera, frame_count, now, reads, cmds, raw_frames,
                 streams, camera_control, encoderVars, published, rawDropped,
                 taken, emitted, outcome>>

\* run: where a command leads: 'stop' breaks out of the loop, 'restart' enters
\* initialize_camera, anything else falls through to camera.read()
AfterCommand(cmd) ==
  CASE cmd = "stop" -> "closing"
    [] cmd = "restart" -> "restart_init"
    [] OTHER -> "read"

\* run: control_queue.empty() was True: on to camera.read().  The
\* specifications in which no command arrives while the loop runs take this
\* step together with the read (AtRead).
CaptureNoCommand ==
  /\ cpc = "loop"
  /\ camera_control = <<>>
  /\ cpc' = "read"
  /\ UNCHANGED <<attempts, camera, frame_count, now, reads, readFails, initFails,
                 capTrace, openHandles, sinceStop, managerVars, yielded, uploadVars, recorderVars, encodeErrors,
                 cmds, raw_frames, streams, camera_control, encoderVars,
                 published, rawDropped, taken, emitted, outcome>>

\* run: a command is waiting on the control queue
CaptureCommand ==
  /\ cpc = "loop"
  /\ camera_control # <<>>
  /\ LET got == QueueGet(camera_control) IN
       /\ camera_control' = got.queue
       /\ cpc' = AfterCommand(got.item)
       /\ IF got.item = "restart"
            THEN /\ camera' = "released"
                 /\ openHandles' = ReleaseHandle(camera, openHandles)
                 /\ attempts' = 0
            ELSE UNCHANGED <<camera, openHandles, attempts>>
  /\ capTrace' = TraceTo(cpc')
  /\ UNCHANGED <<sinceStop, managerVars, yielded, uploadVars, recorderVars>>
  /\ UNCHANGED <<readFails, initFails, encodeErrors, frame_count, now, reads, cmds, raw_frames, streams,
                 encoderVars, published, rawDropped, taken, emitted, outcome>>

AtRead == cpc = "read" \/ (cpc = "loop" /\ camera_control = <<>>)

\* run: camera.read() returned a frame; it is stamped and put on the frame
\* queue without blocking; a Full is swallowed; then sleep(1/fps)
CaptureFrame(maxReads) ==
  /\ AtRead
  /\ camera = "open"
  /\ reads < maxReads
  /\ ~PutWaits(raw_frames, buffer_size, CapturePutBlock)
  /\ LET frame_data == FrameData(frame_count, now)
         res == QueuePut(raw_frames, buffer_size, frame_data) IN
       /\ raw_frames' = res.queue
       /\ frame_count' = NextFrameCount(frame_count, res.full)
       /\ published' = IF res.full THEN published ELSE Append(published, frame_data)
       /\ rawDropped' = IF res.full THEN rawDropped + 1 ELSE rawDropped
  /\ reads' = reads + 1
  /\ now' = now + 1
  /\ cpc' = "loop"
  /\ sinceStop' = CountRead(sinceStop)
  /\ UNCHANGED <<openHandles, managerVars, yielded, uploadVars, recorderVars>>
  /\ UNCHANGED <<readFails, initFails, encodeErrors, attempts, camera, capTrace, cmds, streams, camera_control,
                 encoderVars, taken, emitted, outcome>>

\* run: camera.read() returned ret = False (always so on a camera that is not open)
CaptureReadFail ==
  /\ AtRead
  /\ IF camera = "open"
       THEN /\ readFails < MaxReadFails
            /\ readFails' = readFails + 1
       ELSE UNCHANGED readFails
  /\ cpc' = "reconnect"
  /\ capTrace' = TraceTo(cpc')
  /\ UNCHANGED <<openHandles, sinceStop, managerVars, yielded, uploadVars, recorderVars>>
  /\ UNCHANGED <<initFails, encodeErrors, attempts, camera, frame_count, now, reads, cmds,
                 raw_frames, streams,
                 camera_control, encoderVars, published, rawDropped, taken,
                 emitted, outcome>>

\* run: after a failed read: camera.release(), sleep(1), enter initialize_camera
CaptureReconnect ==
  /\ cpc = "reconnect"
  /\ camera' = "released"
  /\ attempts' = 0
  /\ cpc' = AfterReconnect
  /\ capTrace' = TraceTo(cpc')
  /\ openHandles' = ReleaseHandle(camera, openHandles)
  /\ UNCHANGED <<sinceStop, managerVars, yielded, uploadVars, recorderVars>>
  /\ UNCHANGED <<readFails, initFails, encodeErrors, frame_count, now, reads, cmds, raw_frames, streams,
                 camera_control, encoderVars, published, rawDropped, taken,
                 emitted, outcome>>

\* run: after the loop: camera.release()
CaptureClose ==
  /\ cpc = "closing"
  /\ camera' = "released"
  /\ cpc' = "stopped"
  /\ capTrace' = TraceTo(cpc')
  /\ openHandles' = ReleaseHandle(camera, openHandles)
  /\ UNCHANGED <<sinceStop, managerVars, yielded, uploadVars, recorderVars>>
  /\ UNCHANGED <<readFails, initFails, encodeErrors, attempts, frame_count, now, reads, cmds, raw_frames, streams,
                 camera_control, encoderVars, published, rawDropped, taken,
                 emitted, outcome>>

\* a command is put on the (unbounded) camera control queue, at most maxCmds
\* times; watched: the account sinceStop is kept for a 'stop' put here
ControlPutUpTo(cmd, maxCmds, watched) ==
  /\ cmds < maxCmds
  /\ cmds' = cmds + 1
  /\ camera_control' = Append(camera_control, cmd)
  /\ sinceStop' = IF watched /\ cmd = "stop"
                  THEN AfterStopPut(sinceStop, camera_control, CaptureState)
                  ELSE sinceStop
  /\ UNCHANGED <<captureVars, managerVars, yielded, uploadVars, recorderVars, encodeErrors, raw_frames, streams, encoderVars, published,
                 rawDropped, taken, emitted, outcome>>

\* the environment puts a command on the camera control queue
ControlPut(cmd) == ControlPutUpTo(cmd, MaxCmds, FALSE)

(* ---- encoder pool ---- *)

\* (mutant) the encoder numbers its output itself
OutputData_Renumbered(frame_data, quality_name) ==
  [frame_number |-> frame_data.frame_number + 1,
   timestamp |-> frame_data.timestamp,
   quality |-> quality_name]

\* output_data built by StreamEncoder.run
OutputData(frame_data, quality_name) ==
  [frame_number |-> frame_data.frame_number,
   timestamp |-> frame_data.timestamp,
   quality |-> quality_name]

\* (mutant) only the first format is encoded
AfterFormat_FirstOnly(i) == "get"

\* the position after the put for format i: the next format, or the next get
AfterFormat(i) == IF i < Len(Formats) THEN "encode" ELSE "get"

\* the position after encode_frame raised for format i: the exception leaves the
\* for loop and is caught by the except Exception of the while body
AfterEncodeError(i) == "get"

SetOutcome(n, q, what) == [outcome EXCEPT ![n][q] = what]

\* run: input_queue.get(timeout=1.0) returned a frame
EncoderGet(w) ==
  /\ epc[w] = "get"
  /\ raw_frames # <<>>
  /\ LET got == QueueGet(raw_frames) IN
       /\ raw_frames' = got.queue
       /\ eframe' = [eframe EXCEPT ![w] = got.item]
       /\ taken' = Append(taken, got.item.frame_number)
  /\ epc' = [epc EXCEPT ![w] = "encode"]
  /\ efmt' = [efmt EXCEPT ![w] = 1]
  /\ UNCHANGED <<captureVars, sinceStop, managerVars, yielded, uploadVars, recorderVars, encodeErrors, cmds, streams, camera_control, published,
                 rawDropped, emitted, outcome>>

\* run: one format of the for loop: encode_frame, package, put without blocking
EncoderEmit(w) ==
  /\ epc[w] = "encode"
  /\ LET quality_name == Formats[efmt[w]]
         output_data == OutputData(eframe[w], quality_name)
         res == QueuePut(streams[quality_name], StreamQueueMaxsize, output_data) IN
       /\ ~PutWaits(streams[quality_name], StreamQueueMaxsize, EncoderPutBlock)
       /\ streams' = [streams EXCEPT ![quality_name] = res.queue]
       /\ emitted' = IF res.full THEN emitted
                     ELSE [emitted EXCEPT ![quality_name] = Append(@, output_data)]
       /\ outcome' = SetOutcome(eframe[w].frame_number, quality_name,
                                IF res.full THEN "dropped" ELSE "put")
  /\ epc' = [epc EXCEPT ![w] = AfterFormat(efmt[w])]
  /\ efmt' = [efmt EXCEPT ![w] = IF AfterFormat(@) = "encode" THEN @ + 1 ELSE 0]
  /\ eframe' = [eframe EXCEPT ![w] = IF AfterFormat(efmt[w]) = "get" THEN NoFrame ELSE @]
  /\ UNCHANGED <<captureVars, sinceStop, managerVars, yielded, uploadVars, recorderVars, encodeErrors, cmds, raw_frames, camera_control, published,
                 rawDropped, taken>>

\* run: encode_frame raised for the current format
EncoderEncodeError(w) ==
  /\ epc[w] = "encode"
  /\ encodeErrors < MaxEncodeErrors
  /\ encodeErrors' = encodeErrors + 1
  /\ outcome' = SetOutcome(eframe[w].frame_number, Formats[efmt[w]], "failed")
  /\ epc' = [epc EXCEPT ![w] = AfterEncodeError(efmt[w])]
  /\ efmt' = [efmt EXCEPT ![w] = IF AfterEncodeError(@) = "encode" THEN @ + 1 ELSE 0]
  /\ eframe' = [eframe EXCEPT ![w] = IF AfterEncodeError(efmt[w]) = "get" THEN NoFrame ELSE @]
  /\ UNCHANGED <<captureVars, sinceStop, managerVars, yielded, uploadVars, recorderVars, cmds, raw_frames, streams, camera_control, published,
                 rawDropped, taken, emitted>>

(* ---- delivery ---- *)

\* generate_stream: queue.get(timeout=1.0) returned a frame, which is yielded
\* to the client of this generator; `named` makes the history keep which
\* viewer it was
ViewerYield(v, quality, named) ==
  /\ web = "running"
  /\ streams[quality] # <<>>
  /\ LET got == QueueGet(streams[quality]) IN
       /\ streams' = [streams EXCEPT ![quality] = got.queue]
       /\ yielded' = [yielded EXCEPT ![quality] =
                        Append(@, [viewer |-> IF named THEN v ELSE 0,
                                   frame_number |-> got.item.frame_number])]
  /\ UNCHANGED <<captureVars, sinceStop, managerVars, uploadVars, recorderVars, encodeErrors, cmds, raw_frames, camera_control, encoderVars,
                 published, rawDropped, taken, emitted, outcome>>

ViewerGet(v, quality) == ViewerYield(v, quality, FALSE)

(* ---- process manager ---- *)

\* Process.is_alive(): the process has neither returned from its target nor
\* been killed
IsAlive(name) ==
  CASE name = "camera" -> cpc \notin {"failed", "stopped", "killed"}
    [] name = "webserver" -> web = "running"
    [] OTHER -> epc[EncoderId(name)] # "killed"

\* (mutant) a signal that leaves the process as it is
ProcessKilled_Ignored(name) == UNCHANGED <<cpc, capTrace, web, epc>>

\* process name dies of a signal: it stops where it is, nothing of its code
\* (release(), finally clauses) runs any more
ProcessKilled(name) ==
  /\ cpc' = IF name = "camera" THEN "killed" ELSE cpc
  /\ capTrace' = IF name = "camera" THEN TraceTo("killed") ELSE capTrace
  /\ web' = IF name = "webserver" THEN "killed" ELSE web
  /\ epc' = IF name \in {"camera", "webserver"} THEN epc
            ELSE [epc EXCEPT ![EncoderId(name)] = "killed"]

\* stop_all up to its for loop: running = False, 'stop' is put on the camera
\* control queue (no other process has a control queue)
StopAllBegin(who) ==
  /\ running' = FALSE
  /\ camera_control' = Append(camera_control, "stop")
  /\ sinceStop' = AfterStopPut(sinceStop, camera_control, CaptureState)
  /\ mpc' = "stop_all"
  /\ caller' = who
  /\ sidx' = 1
  /\ sstep' = "terminate"
  /\ UNCHANGED <<cpc, attempts, camera, frame_count, now, reads, readFails,
                 initFails, capTrace, openHandles, web, sigterm, joined,
                 deadSeen, starts, hidx, yielded, uploadVars, recorderVars, encodeErrors, cmds, raw_frames, streams,
                 encoderVars, published, rawDropped, taken, emitted, outcome>>

\* handle_signal: SIGINT or SIGTERM arrives while main is in monitor_health
HandleSignal ==
  /\ mpc = "monitor"
  /\ running
  /\ StopAllBegin("signal")

\* monitor_health finds running False and returns; main's finally calls stop_all
MonitorExit ==
  /\ mpc = "monitor"
  /\ hidx = 0
  /\ ~running
  /\ StopAllBegin("finally")

\* stop_all, for loop: process.terminate() sends SIGTERM to a live process
StopTerminate ==
  /\ mpc = "stop_all"
  /\ sstep = "terminate"
  /\ sigterm' = IF IsAlive(ProcessOrder[sidx]) THEN sigterm \cup {ProcessOrder[sidx]}
                ELSE sigterm
  /\ sstep' = "join"
  /\ UNCHANGED <<captureVars, sinceStop, web, running, mpc, caller, sidx, joined,
                 deadSeen, starts, hidx, yielded, uploadVars, recorderVars, encodeErrors, cmds, raw_frames, streams,
                 camera_control, encoderVars, published, rawDropped, taken,
                 emitted, outcome>>

\* stop_all, for loop: process.join(timeout=5) returns: the process is dead, or
\* the five seconds are over
StopJoin ==
  /\ mpc = "stop_all"
  /\ sstep = "join"
  /\ joined' = joined \cup {ProcessOrder[sidx]}
  /\ sstep' = "check"
  /\ UNCHANGED <<captureVars, sinceStop, web, running, mpc, caller, sidx, sigterm,
                 deadSeen, starts, hidx, yielded, uploadVars, recorderVars, encodeErrors, cmds, raw_frames, streams,
                 camera_control, encoderVars, published, rawDropped, taken,
                 emitted, outcome>>

\* stop_all, for loop: if process.is_alive(): process.kill(); then the next
\* process, or the end of stop_all
StopCheck ==
  /\ mpc = "stop_all"
  /\ sstep = "check"
  /\ IF IsAlive(ProcessOrder[sidx])
       THEN ProcessKilled(ProcessOrder[sidx])
       ELSE UNCHANGED <<cpc, capTrace, web, epc>>
  /\ sigterm' = sigterm \ {ProcessOrder[sidx]}
  /\ IF sidx < Len(ProcessOrder)
       THEN /\ sidx' = sidx + 1
            /\ sstep' = "terminate"
            /\ UNCHANGED mpc
       ELSE /\ sidx' = 0
            /\ sstep' = "none"
            /\ mpc' = IF caller = "signal" THEN "monitor" ELSE "exited"
  /\ UNCHANGED <<attempts, camera, frame_count, now, reads, readFails, initFails,
                 openHandles, sinceStop, running, caller, joined, deadSeen,
                 starts, hidx, yielded, uploadVars, recorderVars, encodeErrors, cmds, raw_frames, streams,
                 camera_control, eframe, efmt, published, rawDropped, taken,
                 emitted, outcome>>

\* the SIGTERM sent by terminate() is delivered: the process dies
SigtermDelivered(name) ==
  /\ name \in sigterm
  /\ IsAlive(name)
  /\ ProcessKilled(name)
  /\ sigterm' = sigterm \ {name}
  /\ UNCHANGED <<attempts, camera, frame_count, now, reads, readFails, initFails,
                 openHandles, sinceStop, running, mpc, caller, sidx, sstep,
                 joined, deadSeen, starts, hidx, yielded, uploadVars, recorderVars, encodeErrors, cmds, raw_frames,
                 streams, camera_control, eframe, efmt, published, rawDropped,
                 taken, emitted, outcome>>

\* monitor_health: one sweep over the processes: a dead one is logged ("died,
\* restarting..."), and nothing else is done about it
HealthPoll ==
  /\ mpc = "monitor"
  /\ running
  /\ \E name \in ProcessNames : ~IsAlive(name) /\ deadSeen[name] < MaxDeadPolls
  /\ deadSeen' = [name \in ProcessNames |->
                    IF ~IsAlive(name) /\ deadSeen[name] < MaxDeadPolls
                      THEN deadSeen[name] + 1 ELSE deadSeen[name]]
  /\ UNCHANGED <<captureVars, sinceStop, web, running, mpc, caller, sidx, sstep,
                 sigterm, joined, starts, hidx, yielded, uploadVars, recorderVars, encodeErrors, cmds, raw_frames,
                 streams, camera_control, encoderVars, published, rawDropped,
                 taken, emitted, outcome>>

\* monitor_health: `while self.running` was found true, the for loop over the
\* processes begins
HealthSweepBegin ==
  /\ mpc = "monitor"
  /\ hidx = 0
  /\ running
  /\ hidx' = 1
  /\ UNCHANGED <<captureVars, sinceStop, web, running, mpc, caller, sidx, sstep,
                 sigterm, joined, deadSeen, starts, yielded, uploadVars,
                 recorderVars, encodeErrors, cmds, raw_frames, streams,
                 camera_control, encoderVars, published, rawDropped, taken,
                 emitted, outcome>>

\* monitor_health, for loop: one process is looked at, a dead one is logged
\* ("died, restarting..."); the loop does not look at self.running. After the
\* last process comes the sleep, then the while test.
HealthCheckOne ==
  /\ mpc = "monitor"
  /\ hidx > 0
  /\ deadSeen' = [deadSeen EXCEPT ![ProcessOrder[hidx]] =
                    IF ~IsAlive(ProcessOrder[hidx]) /\ @ < MaxDeadPolls
                      THEN @ + 1 ELSE @]
  /\ hidx' = IF hidx < Len(ProcessOrder) THEN hidx + 1 ELSE 0
  /\ UNCHANGED <<captureVars, sinceStop, web, running, mpc, caller, sidx, sstep,
                 sigterm, joined, starts, yielded, uploadVars, recorderVars,
                 encodeErrors, cmds, raw_frames, streams, camera_control,
                 encoderVars, published, rawDropped, taken, emitted, outcome>>

(* ---- recording upload server (Express, multer, Google Cloud Storage) ---- *)

Requests == 1..MaxRequests

\* fileFilter: the default list of allowed MIME types
allowedMimeTypes == {"video/mp4", "video/webm", "image/jpeg", "image/png", "image/jpg"}

\* a multipart body without a file part
NoFile == [none |-> TRUE, fieldname |-> "", mimetype |-> "", size |-> 0,
           originalname |-> ""]
\* the bodies a client posts: no file, or one file part under some field name
FieldNames == {"recording", "video"}
MimeTypes == {"video/webm", "text/plain"}
FileSizes == {MAX_FILE_SIZE, MAX_FILE_SIZE + 1}
PostedFiles ==
  {NoFile} \cup
  {[none |-> FALSE, fieldname |-> f, mimetype |-> m, size |-> n,
    originalname |-> "clip.webm"] :
     f \in FieldNames, m \in MimeTypes, n \in FileSizes}

\* (mutant) a filter that lets every MIME type through
fileFilter_AcceptAll(file) == TRUE

\* fileFilter: cb(null, true) or cb(new Error('Invalid file type...'), false)
fileFilter(file) == file.mimetype \in allowedMimeTypes

\* the codes of multer.MulterError
MulterErrorCodes == {"LIMIT_FILE_SIZE", "LIMIT_UNEXPECTED_FILE"}

\* upload.single('recording'): "next" when the handler is called (with
\* req.file, or without it when the body has no file part), else the error
\* given to next(err): a file part under another field name, a file the filter
\* refuses, a file longer than limits.fileSize
UploadSingle(file) ==
  CASE file.none -> "next"
    [] file.fieldname # "recording" -> "LIMIT_UNEXPECTED_FILE"
    [] ~fileFilter(file) -> "Invalid file type"
    [] file.size > MAX_FILE_SIZE -> "LIMIT_FILE_SIZE"
    [] OTHER -> "next"

\* `recordings/${timestamp}-${req.file.originalname}`
DestinationPath(timestamp, originalname) ==
  <<"recordings", timestamp, originalname>>
NoPath == <<>>
\* `https://storage.googleapis.com/${bucket.name}/${blob.name}`
PublicUrl(name) == <<"https://storage.googleapis.com", "bucket">> \o name

\* uploadToGCS: the blob and the metadata its write stream was created with
NoBlob == [name |-> NoPath, contentType |-> "", uploadedAt |-> 0]
\* uploadToGCS: the value the promise resolves with
NoResult == [none |-> TRUE, filename |-> NoPath, url |-> NoPath, size |-> 0,
             mimetype |-> "", uploadedAt |-> 0]
\* an object of the bucket
NoObject == [none |-> TRUE, name |-> NoPath, contentType |-> "", size |-> 0,
             uploadedAt |-> 0, public |-> FALSE]
\* a request not sent yet
NoRequest == [pc |-> "idle", posted |-> NoFile, file |-> NoFile,
              error |-> "none", blob |-> NoBlob, result |-> NoResult]

\* (mutant) an initialization failure that ends the server
StartupContinues_Rethrow(initOk) == initOk

\* server.js: the catch around initializeGCS only logs, app.listen follows
StartupContinues(initOk) == TRUE

\* app.locals.gcsBucket: set only when initializeGCS returned
GcsBucket == IF gcsConfig = "config" THEN "bucket" ELSE "undefined"

\* GET /health
Health == [status |-> "ok", gcsConfigured |-> (gcsConfig = "config")]

\* (mutant) a response sent twice
Respond_Twice(sent, response) == Append(Append(sent, response), response)

\* res.status(...).json(...)
Respond(sent, response) == Append(sent, response)

\* (mutant) the storage check made before the file check
HandlerCheck_StorageFirst(file, bkt) ==
  CASE bkt = "undefined" -> "no_storage"
    [] file.none -> "no_file"
    [] OTHER -> "upload"

\* the route handler's checks, in order: !req.file, then !bucket
HandlerCheck(file, bkt) ==
  CASE file.none -> "no_file"
    [] bkt = "undefined" -> "no_storage"
    [] OTHER -> "upload"

\* (mutant) a promise resolved as soon as the write finished
AfterFinish_ResolveAtOnce == "resolved"

\* blobStream 'finish': await blob.makePublic() comes before resolve
AfterFinish == "make_public"

\* the route handler's catch block
CatchResponse(error) ==
  CASE error = "LIMIT_FILE_SIZE" ->
         [status |-> 413, error |-> "File too large", data |-> NoResult]
    [] error \in MulterErrorCodes \ {"LIMIT_FILE_SIZE"} ->
         [status |-> 400, error |-> error, data |-> NoResult]
    [] OTHER ->
         [status |-> 500, error |-> "Failed to upload file", data |-> NoResult]

\* server.js from the top to app.listen: initializeGCS throws when
\* GCS_PROJECT_ID or GCS_BUCKET_NAME is missing
ServerStart(envOk) ==
  /\ gcsConfig = "unset"
  /\ gcsConfig' = IF envOk THEN "config" ELSE "undefined"
  /\ listening' = StartupContinues(envOk)
  /\ UNCHANGED <<sclock, requests, responses, bucket, uploadCalls>>
  /\ UNCHANGED <<captureVars, encoderVars, managerVars, raw_frames, streams,
                 camera_control, encodeErrors, cmds, published, rawDropped,
                 taken, emitted, outcome, sinceStop, yielded, recorderVars>>

\* a client sends POST /recordings
ClientPost(r, file) ==
  /\ listening
  /\ requests[r].pc = "idle"
  /\ requests' = [requests EXCEPT ![r].pc = "multer", ![r].posted = file]
  /\ UNCHANGED <<gcsConfig, listening, sclock, responses, bucket, uploadCalls>>
  /\ UNCHANGED <<captureVars, encoderVars, managerVars, raw_frames, streams,
                 camera_control, encodeErrors, cmds, published, rawDropped,
                 taken, emitted, outcome, sinceStop, yielded, recorderVars>>

\* upload.single('recording') has parsed the body
MulterSingle(r) ==
  /\ requests[r].pc = "multer"
  /\ LET e == UploadSingle(requests[r].posted) IN
       requests' = IF e = "next"
                   THEN [requests EXCEPT ![r].pc = "handler",
                                         ![r].file = requests[r].posted]
                   ELSE [requests EXCEPT ![r].pc = "error_handler",
                                         ![r].error = e]
  /\ UNCHANGED <<gcsConfig, listening, sclock, responses, bucket, uploadCalls>>
  /\ UNCHANGED <<captureVars, encoderVars, managerVars, raw_frames, streams,
                 camera_control, encodeErrors, cmds, published, rawDropped,
                 taken, emitted, outcome, sinceStop, yielded, recorderVars>>

\* the route handler up to its first return or await: the two checks, then
\* uploadToGCS up to blobStream.end(file.buffer)
RouteHandler(r) ==
  /\ requests[r].pc = "handler"
  /\ LET file == requests[r].file
         check == HandlerCheck(file, GcsBucket)
     IN
       CASE check = "no_file" ->
              /\ responses' = [responses EXCEPT ![r] =
                   Respond(@, [status |-> 400, error |-> "No file uploaded",
                               data |-> NoResult])]
              /\ requests' = [requests EXCEPT ![r].pc = "done"]
              /\ UNCHANGED <<sclock, uploadCalls>>
         [] check = "no_storage" ->
              /\ responses' = [responses EXCEPT ![r] =
                   Respond(@, [status |-> 500,
                               error |-> "Cloud storage not configured",
                               data |-> NoResult])]
              /\ requests' = [requests EXCEPT ![r].pc = "done"]
              /\ UNCHANGED <<sclock, uploadCalls>>
         [] OTHER ->
              /\ requests' = [requests EXCEPT
                   ![r].pc = "writing",
                   ![r].blob = [name |-> DestinationPath(sclock, file.originalname),
                                contentType |-> file.mimetype,
                                uploadedAt |-> sclock + 1]]
              /\ uploadCalls' = [uploadCalls EXCEPT ![r] = @ + 1]
              /\ sclock' = sclock + 2
              /\ UNCHANGED responses
  /\ UNCHANGED <<gcsConfig, listening, bucket>>
  /\ UNCHANGED <<captureVars, encoderVars, managerVars, raw_frames, streams,
                 camera_control, encodeErrors, cmds, published, rawDropped,
                 taken, emitted, outcome, sinceStop, yielded, recorderVars>>

\* blobStream 'finish': the object is stored, private; makePublic is awaited
StreamFinish(r) ==
  /\ requests[r].pc = "writing"
  /\ bucket' = [bucket EXCEPT ![r] =
       [none |-> FALSE, name |-> requests[r].blob.name,
        contentType |-> requests[r].blob.contentType,
        size |-> requests[r].file.size,
        uploadedAt |-> requests[r].blob.uploadedAt, public |-> FALSE]]
  /\ requests' = [requests EXCEPT ![r].pc = AfterFinish]
  /\ UNCHANGED <<gcsConfig, listening, sclock, responses, uploadCalls>>
  /\ UNCHANGED <<captureVars, encoderVars, managerVars, raw_frames, streams,
                 camera_control, encodeErrors, cmds, published, rawDropped,
                 taken, emitted, outcome, sinceStop, yielded, recorderVars>>

\* blobStream 'error': reject(err), nothing is stored
StreamError(r) ==
  /\ requests[r].pc = "writing"
  /\ requests' = [requests EXCEPT ![r].pc = "catch", ![r].error = "stream error"]
  /\ UNCHANGED <<gcsConfig, listening, sclock, responses, bucket, uploadCalls>>
  /\ UNCHANGED <<captureVars, encoderVars, managerVars, raw_frames, streams,
                 camera_control, encodeErrors, cmds, published, rawDropped,
                 taken, emitted, outcome, sinceStop, yielded, recorderVars>>

\* blob.makePublic() returned: resolve({filename, url, size, mimetype, uploadedAt})
MakePublicOk(r) ==
  /\ requests[r].pc = "make_public"
  /\ bucket' = [bucket EXCEPT ![r].public = TRUE]
  /\ requests' = [requests EXCEPT
       ![r].pc = "resolved",
       ![r].result = [none |-> FALSE, filename |-> requests[r].blob.name,
                      url |-> PublicUrl(requests[r].blob.name),
                      size |-> requests[r].file.size,
                      mimetype |-> requests[r].file.mimetype,
                      uploadedAt |-> sclock]]
  /\ sclock' = sclock + 1
  /\ UNCHANGED <<gcsConfig, listening, responses, uploadCalls>>
  /\ UNCHANGED <<captureVars, encoderVars, managerVars, raw_frames, streams,
                 camera_control, encodeErrors, cmds, published, rawDropped,
                 taken, emitted, outcome, sinceStop, yielded, recorderVars>>

\* blob.makePublic() threw: reject(err); the object written stays as it is
MakePublicFail(r) ==
  /\ requests[r].pc = "make_public"
  /\ requests' = [requests EXCEPT ![r].pc = "catch",
                                  ![r].error = "makePublic failed"]
  /\ UNCHANGED <<gcsConfig, listening, sclock, responses, bucket, uploadCalls>>
  /\ UNCHANGED <<captureVars, encoderVars, managerVars, raw_frames, streams,
                 camera_control, encodeErrors, cmds, published, rawDropped,
                 taken, emitted, outcome, sinceStop, yielded, recorderVars>>

\* the await of uploadToGCS returned: res.status(201).json(...)
Respond201(r) ==
  /\ requests[r].pc = "resolved"
  /\ responses' = [responses EXCEPT ![r] =
       Respond(@, [status |-> 201, error |-> "", data |-> requests[r].result])]
  /\ requests' = [requests EXCEPT ![r].pc = "done"]
  /\ UNCHANGED <<gcsConfig, listening, sclock, bucket, uploadCalls>>
  /\ UNCHANGED <<captureVars, encoderVars, managerVars, raw_frames, streams,
                 camera_control, encodeErrors, cmds, published, rawDropped,
                 taken, emitted, outcome, sinceStop, yielded, recorderVars>>

\* the await of uploadToGCS threw: the catch block answers
CatchRespond(r) ==
  /\ requests[r].pc = "catch"
  /\ responses' = [responses EXCEPT ![r] =
       Respond(@, CatchResponse(requests[r].error))]
  /\ requests' = [requests EXCEPT ![r].pc = "done"]
  /\ UNCHANGED <<gcsConfig, listening, sclock, bucket, uploadCalls>>
  /\ UNCHANGED <<captureVars, encoderVars, managerVars, raw_frames, streams,
                 camera_control, encodeErrors, cmds, published, rawDropped,
                 taken, emitted, outcome, sinceStop, yielded, recorderVars>>

\* server.js error handler: an error given to next(err) by the middleware
ErrorHandler(r) ==
  /\ requests[r].pc = "error_handler"
  /\ responses' = [responses EXCEPT ![r] =
       Respond(@, [status |-> 500, error |-> "Internal Server Error",
                   data |-> NoResult])]
  /\ requests' = [requests EXCEPT ![r].pc = "done"]
  /\ UNCHANGED <<gcsConfig, listening, sclock, bucket, uploadCalls>>
  /\ UNCHANGED <<captureVars, encoderVars, managerVars, raw_frames, streams,
                 camera_control, encodeErrors, cmds, published, rawDropped,
                 taken, emitted, outcome, sinceStop, yielded, recorderVars>>

\* one step of the server on request r
ServerStep(r) ==
  \/ MulterSingle(r)
  \/ RouteHandler(r)
  \/ StreamFinish(r)
  \/ StreamError(r)
  \/ MakePublicOk(r)
  \/ MakePublicFail(r)
  \/ Respond201(r)
  \/ CatchRespond(r)
  \/ ErrorHandler(r)

(* ---- CameraRecorder (browser page) ---- *)

\* everything outside the browser page
backendVars == <<captureVars, encoderVars, managerVars, raw_frames, streams,
                 camera_control, encodeErrors, cmds, published, rawDropped,
                 taken, emitted, outcome, sinceStop, yielded, uploadVars>>

\* the MediaRecorders startRecording can create
Recordings == 1..MaxRecordings

Buttons == {"startCameraBtn", "stopCameraBtn", "capturePhotoBtn",
            "startRecordingBtn", "stopRecordingBtn"}
\* the disabled attributes while there is no camera, as stopCamera sets them
NoCameraButtons == [b \in Buttons |-> b # "startCameraBtn"]
\* the disabled attributes startCamera sets once getUserMedia resolved
CameraOnButtons(d) ==
  [d EXCEPT !["startCameraBtn"] = TRUE, !["stopCameraBtn"] = FALSE,
            !["capturePhotoBtn"] = FALSE, !["startRecordingBtn"] = FALSE]
\* the disabled attributes startRecording sets
RecordingButtons(d) ==
  [d EXCEPT !["startRecordingBtn"] = TRUE, !["stopRecordingBtn"] = FALSE,
            !["capturePhotoBtn"] = TRUE]
\* the disabled attributes stopRecording sets
StoppedRecordingButtons(d) ==
  [d EXCEPT !["startRecordingBtn"] = FALSE, !["stopRecordingBtn"] = TRUE,
            !["capturePhotoBtn"] = FALSE]

\* showStatus(message, type)
ShowStatus(type) == [shown |-> TRUE, type |-> type]

\* a MediaRecorder not created yet
NoRecorder == [state |-> "none", stream |-> 0]
\* a recording whose onstop has not run yet
NoUpload == [state |-> "none", file |-> <<>>]
\* the recording the next `new MediaRecorder` makes
NextRecording ==
  CHOOSE r \in Recordings :
    /\ recorders[r].state = "none"
    /\ \A o \in Recordings : o < r => recorders[o].state # "none"
\* result.data of an ok response to the upload of recording r
ResultData(r) == [filename |-> r]

\* (mutant) a list that grows at its end
AddRecording_AtEnd(list, recording) == Append(list, recording)

\* addRecordingToList: recordings.unshift(recording), and
\* recordingsList.insertBefore(recordingItem, recordingsList.firstChild)
AddRecording(list, recording) == <<recording>> \o list

\* a click on startCameraBtn: startCamera up to `await getUserMedia`
StartCameraClick ==
  /\ ~disabled["startCameraBtn"]
  /\ cameraClicks < MaxCameraClicks
  /\ cameraClicks' = cameraClicks + 1
  /\ gumPending' = gumPending + 1
  /\ statusMessage' = ShowStatus("info")
  /\ UNCHANGED <<stream, mediaRecorder, recordedChunks, recordings, disabled,
                 indicator, uploadProgress, recordingsList, liveTracks,
                 streamsMade, recorders, uploads>>
  /\ UNCHANGED backendVars

\* getUserMedia resolved with a new stream: startCamera after the await
GetUserMediaOk ==
  /\ gumPending > 0
  /\ gumPending' = gumPending - 1
  /\ streamsMade' = streamsMade + 1
  /\ liveTracks' = liveTracks \cup {streamsMade + 1}
  /\ stream' = streamsMade + 1
  /\ disabled' = CameraOnButtons(disabled)
  /\ statusMessage' = ShowStatus("success")
  /\ UNCHANGED <<mediaRecorder, recordedChunks, recordings, indicator,
                 uploadProgress, recordingsList, cameraClicks, recorders,
                 uploads>>
  /\ UNCHANGED backendVars

\* getUserMedia rejected: the catch of startCamera
GetUserMediaFail ==
  /\ gumPending > 0
  /\ gumPending' = gumPending - 1
  /\ statusMessage' = ShowStatus("error")
  /\ UNCHANGED <<stream, mediaRecorder, recordedChunks, recordings, disabled,
                 indicator, uploadProgress, recordingsList, cameraClicks,
                 liveTracks, streamsMade, recorders, uploads>>
  /\ UNCHANGED backendVars

\* a click on stopCameraBtn: stopCamera
StopCameraClick ==
  /\ ~disabled["stopCameraBtn"]
  /\ IF stream # 0
       THEN /\ liveTracks' = liveTracks \ {stream}
            /\ stream' = 0
            /\ disabled' = NoCameraButtons
            /\ statusMessage' = ShowStatus("info")
       ELSE UNCHANGED <<liveTracks, stream, disabled, statusMessage>>
  /\ UNCHANGED <<mediaRecorder, recordedChunks, recordings, indicator,
                 uploadProgress, recordingsList, gumPending, cameraClicks,
                 streamsMade, recorders, uploads>>
  /\ UNCHANGED backendVars

\* a click on startRecordingBtn: startRecording; `new MediaRecorder(null)`
\* throws, which its catch reports
StartRecordingClick ==
  /\ ~disabled["startRecordingBtn"]
  /\ \E r \in Recordings : recorders[r].state = "none"
  /\ recordedChunks' = <<>>
  /\ IF stream # 0
       THEN /\ recorders' = [recorders EXCEPT ![NextRecording] =
                               [state |-> "recording", stream |-> stream]]
            /\ mediaRecorder' = NextRecording
            /\ indicator' = TRUE
            /\ disabled' = RecordingButtons(disabled)
            /\ statusMessage' = ShowStatus("success")
       ELSE /\ statusMessage' = ShowStatus("error")
            /\ UNCHANGED <<recorders, mediaRecorder, indicator, disabled>>
  /\ UNCHANGED <<stream, recordings, uploadProgress, recordingsList,
                 gumPending, cameraClicks, liveTracks, streamsMade, uploads>>
  /\ UNCHANGED backendVars

\* a click on stopRecordingBtn: stopRecording; mediaRecorder.stop() makes the
\* recorder inactive, its events follow in a later task
StopRecordingClick ==
  /\ ~disabled["stopRecordingBtn"]
  /\ IF mediaRecorder # 0 /\ recorders[mediaRecorder].state = "recording"
       THEN /\ recorders' = [recorders EXCEPT ![mediaRecorder].state = "stopping"]
            /\ indicator' = FALSE
            /\ disabled' = StoppedRecordingButtons(disabled)
            /\ statusMessage' = ShowStatus("info")
       ELSE UNCHANGED <<recorders, indicator, disabled, statusMessage>>
  /\ UNCHANGED <<stream, mediaRecorder, recordedChunks, recordings,
                 uploadProgress, recordingsList, gumPending, cameraClicks,
                 liveTracks, streamsMade, uploads>>
  /\ UNCHANGED backendVars

\* the task that ends recorder r, after stop() or after the tracks of its
\* stream ended: dataavailable with the data of the recording (ondataavailable
\* pushes it), then stop (onstop builds the file from recordedChunks and calls
\* uploadFile, which shows the progress bar and awaits fetch)
RecorderStopTask(r) ==
  /\ \/ recorders[r].state = "stopping"
     \/ recorders[r].state = "recording" /\ recorders[r].stream \notin liveTracks
  /\ recorders' = [recorders EXCEPT ![r].state = "inactive"]
  /\ recordedChunks' = Append(recordedChunks, r)
  /\ uploads' = [uploads EXCEPT ![r] =
                   [state |-> "pending", file |-> Append(recordedChunks, r)]]
  /\ uploadProgress' = TRUE
  /\ UNCHANGED <<stream, mediaRecorder, recordings, disabled, indicator,
                 statusMessage, recordingsList, gumPending, cameraClicks,
                 liveTracks, streamsMade>>
  /\ UNCHANGED backendVars

\* the fetch of uploadFile has settled: an ok response, a response that is not
\* ok, or a network error; uploadFile runs to its end (the hiding of the
\* progress bar two seconds after a success is left out), then onstop empties
\* recordedChunks
UploadDone(r, ok) ==
  /\ uploads[r].state = "pending"
  /\ IF ok
       THEN /\ uploads' = [uploads EXCEPT ![r].state = "ok"]
            /\ recordings' = AddRecording(recordings, ResultData(r))
            /\ recordingsList' = AddRecording(recordingsList, ResultData(r))
            /\ statusMessage' = ShowStatus("success")
            /\ UNCHANGED uploadProgress
       ELSE /\ uploads' = [uploads EXCEPT ![r].state = "failed"]
            /\ uploadProgress' = FALSE
            /\ statusMessage' = ShowStatus("error")
            /\ UNCHANGED <<recordings, recordingsList>>
  /\ recordedChunks' = <<>>
  /\ UNCHANGED <<stream, mediaRecorder, disabled, indicator, gumPending,
                 cameraClicks, liveTracks, streamsMade, recorders>>
  /\ UNCHANGED backendVars

(* ---- specifications ---- *)

Init ==
  /\ cpc = "init"
  /\ attempts = 0
  /\ camera = "none"
  /\ frame_count = 0
  /\ now = 1
  /\ raw_frames = <<>>
  /\ streams = [q \in QualityNames |-> <<>>]
  /\ camera_control = <<>>
  /\ epc = [w \in Encoders |-> "get"]
  /\ eframe = [w \in Encoders |-> NoFrame]
  /\ efmt = [w \in Encoders |-> 0]
  /\ reads = 0
  /\ readFails = 0
  /\ initFails = 0
  /\ encodeErrors = 0
  /\ cmds = 0
  /\ published = <<>>
  /\ rawDropped = 0
  /\ taken = <<>>
  /\ emitted = [q \in QualityNames |-> <<>>]
  /\ outcome = [n \in 0..MaxLoadReads |-> [q \in QualityNames |-> "none"]]
  /\ capTrace = <<"Connecting">>
  /\ openHandles = 0
  /\ sinceStop = NoStop
  /\ web = "running"
  /\ running = TRUE
  /\ mpc = "monitor"
  /\ caller = "none"
  /\ sidx = 0
  /\ sstep = "none"
  /\ sigterm = {}
  /\ joined = {}
  /\ deadSeen = [p \in ProcessNames |-> 0]
  /\ starts = [p \in ProcessNames |-> 1]
  /\ yielded = [q \in QualityNames |-> <<>>]
  /\ gcsConfig = "unset"
  /\ listening = FALSE
  /\ sclock = 1
  /\ requests = [r \in Requests |-> NoRequest]
  /\ responses = [r \in Requests |-> <<>>]
  /\ bucket = [r \in Requests |-> NoObject]
  /\ uploadCalls = [r \in Requests |-> 0]
  /\ hidx = 0
  /\ stream = 0
  /\ mediaRecorder = 0
  /\ recordedChunks = <<>>
  /\ recordings = <<>>
  /\ disabled = NoCameraButtons
  /\ indicator = FALSE
  /\ uploadProgress = FALSE
  /\ statusMessage = [shown |-> FALSE, type |-> "none"]
  /\ recordingsList = <<>>
  /\ gumPending = 0
  /\ cameraClicks = 0
  /\ liveTracks = {}
  /\ streamsMade = 0
  /\ recorders = [r \in Recordings |-> NoRecorder]
  /\ uploads = [r \in Recordings |-> NoUpload]

\* the pipeline with a camera that works: capture, encoders, viewers
Next ==
  \/ CaptureOpenOk
  \/ CaptureFrame(MaxReads)
  \/ \E w \in Encoders : EncoderGet(w)
  \/ \E w \in Encoders : EncoderEmit(w)
  \/ \E w \in Encoders : EncoderEncodeError(w)
  \/ \E v \in Viewers, q \in QualityNames : ViewerGet(v, q)

Spec == Init /\ [][Next]_vars

\* the capture supervisor with a failing camera and control commands, and an
\* encoder draining the raw queue (no viewer connected)
NextCapture ==
  \/ CaptureOpenOk
  \/ CaptureOpenFail
  \/ CaptureInitExhausted
  \/ CaptureCommand
  \/ CaptureFrame(MaxReads)
  \/ CaptureReadFail
  \/ CaptureReconnect
  \/ CaptureClose
  \/ \E cmd \in Commands : ControlPut(cmd)
  \/ \E w \in OneWorker : EncoderGet(w)
  \/ \E w \in OneWorker : EncoderEmit(w)

SpecCapture == Init /\ [][NextCapture]_vars

\* a backlog: nobody views "hd", viewers take "sd" only, the camera works
NextBacklog ==
  \/ CaptureOpenOk
  \/ CaptureFrame(MaxLoadReads)
  \/ \E w \in Encoders : EncoderGet(w)
  \/ \E w \in Encoders : EncoderEmit(w)
  \/ \E v \in Viewers : ViewerGet(v, "sd")

SpecBacklog == Init /\ [][NextBacklog]_vars

\* the capture supervisor alone, with a failing camera and commands arriving at
\* any point of its loop, also between the check of the control queue and the
\* read
NextControl ==
  \/ CaptureOpenOk
  \/ CaptureOpenFail
  \/ CaptureInitExhausted
  \/ CaptureNoCommand
  \/ CaptureCommand
  \/ CaptureFrame(MaxReads)
  \/ CaptureReadFail
  \/ CaptureReconnect
  \/ CaptureClose
  \/ \E cmd \in Commands : ControlPutUpTo(cmd, MaxControlCmds, TRUE)

SpecControl == Init /\ [][NextControl]_vars

\* shutdown: a signal reaches main while the pipeline runs with a working camera
NextShutdown ==
  \/ CaptureOpenOk
  \/ CaptureNoCommand
  \/ CaptureCommand
  \/ CaptureFrame(MaxShutdownReads)
  \/ CaptureClose
  \/ \E w \in Encoders : EncoderGet(w)
  \/ \E w \in Encoders : EncoderEmit(w)
  \/ HandleSignal
  \/ MonitorExit
  \/ StopTerminate
  \/ StopJoin
  \/ StopCheck
  \/ \E name \in ProcessNames : SigtermDelivered(name)

SpecShutdown == Init /\ [][NextShutdown]_vars

\* shutdown where main keeps running: stop_all, once begun, takes its steps
SpecShutdownFair ==
  SpecShutdown /\ WF_vars(StopTerminate \/ StopJoin \/ StopCheck)

\* shutdown with the health sweep taken one process at a time: the signal
\* handler can run between any two steps of monitor_health
NextMonitor ==
  \/ CaptureOpenOk
  \/ CaptureNoCommand
  \/ CaptureCommand
  \/ CaptureClose
  \/ HandleSignal
  \/ MonitorExit
  \/ StopTerminate
  \/ StopJoin
  \/ StopCheck
  \/ \E name \in ProcessNames : SigtermDelivered(name)
  \/ HealthSweepBegin
  \/ HealthCheckOne

SpecMonitor == Init /\ [][NextMonitor]_vars

\* health monitoring: the camera may fail to open at startup, which ends the
\* camera process
NextHealth ==
  \/ CaptureOpenOk
  \/ CaptureOpenFail
  \/ CaptureInitExhausted
  \/ CaptureFrame(MaxReads)
  \/ \E w \in Encoders : EncoderGet(w)
  \/ \E w \in Encoders : EncoderEmit(w)
  \/ HealthPoll

SpecHealth == Init /\ [][NextHealth]_vars

\* one encoder worker (processing.encoder_workers: 1) under a backlog: nobody
\* views "hd", viewers take "sd" only
NextOneWorker ==
  \/ CaptureOpenOk
  \/ CaptureFrame(MaxLoadReads)
  \/ \E w \in OneWorker : EncoderGet(w)
  \/ \E w \in OneWorker : EncoderEmit(w)
  \/ \E v \in Viewers : ViewerGet(v, "sd")

SpecOneWorker == Init /\ [][NextOneWorker]_vars

\* capture with failing reads and a full raw queue that one encoder drains
NextNumbering ==
  \/ CaptureOpenOk
  \/ CaptureFrame(MaxLoadReads)
  \/ CaptureReadFail
  \/ CaptureReconnect
  \/ \E w \in OneWorker : EncoderGet(w)
  \/ \E w \in OneWorker : EncoderEmit(w)

SpecNumbering == Init /\ [][NextNumbering]_vars

\* several viewers on both qualities, each delivery recorded with its viewer
NextViewers ==
  \/ CaptureOpenOk
  \/ CaptureFrame(MaxReads)
  \/ \E w \in Encoders : EncoderGet(w)
  \/ \E w \in Encoders : EncoderEmit(w)
  \/ \E v \in Viewers, q \in QualityNames : ViewerYield(v, q, TRUE)

SpecViewers == Init /\ [][NextViewers]_vars

\* the upload server: startup, then POST /recordings requests in flight together
NextUpload ==
  \/ \E envOk \in BOOLEAN : ServerStart(envOk)
  \/ \E r \in Requests, file \in PostedFiles : ClientPost(r, file)
  \/ \E r \in Requests : MulterSingle(r)
  \/ \E r \in Requests : RouteHandler(r)
  \/ \E r \in Requests : StreamFinish(r)
  \/ \E r \in Requests : StreamError(r)
  \/ \E r \in Requests : MakePublicOk(r)
  \/ \E r \in Requests : MakePublicFail(r)
  \/ \E r \in Requests : Respond201(r)
  \/ \E r \in Requests : CatchRespond(r)
  \/ \E r \in Requests : ErrorHandler(r)

SpecUpload == Init /\ [][NextUpload]_vars

\* the browser page: clicks, and the browser's events in any order
NextRecorder ==
  \/ StartCameraClick
  \/ GetUserMediaOk
  \/ GetUserMediaFail
  \/ StopCameraClick
  \/ StartRecordingClick
  \/ StopRecordingClick
  \/ \E r \in Recordings : RecorderStopTask(r)
  \/ \E r \in Recordings, ok \in BOOLEAN : UploadDone(r, ok)

SpecRecorder == Init /\ [][NextRecorder]_vars

\* an encoder is a process of its own: it keeps taking steps
EncoderStep(w) == EncoderGet(w) \/ EncoderEmit(w)

SpecBacklogFair ==
  /\ SpecBacklog
  /\ \A w \in Encoders : WF_vars(EncoderStep(w))

(* ---- properties ---- *)

Min(a, b) == IF a <= b THEN a ELSE b

\* encoder w holds frame number n
Holding(w, n) == epc[w] = "encode" /\ eframe[w].frame_number = n

\* frame number n was taken from the raw queue and no encoder holds it any more
Finished(n) ==
  /\ \E i \in 1..Len(taken) : taken[i] = n
  /\ \A w \in Encoders : ~Holding(w, n)

\* nothing is queued for the encoders and every encoder waits in get
Quiescent == raw_frames = <<>> /\ \A w \in Encoders : epc[w] = "get"

\* no put on a quality queue found it full
NoStreamDrop ==
  \A n \in DOMAIN outcome : \A q \in QualityNames : outcome[n][q] # "dropped"

\* C1: the raw-frame queue never holds more than buffer_size items and no
\* quality queue holds more than its maxsize, whatever the interleaving of the
\* capture loop, the encoders and the viewers.
C1_QueuesWithinCapacity ==
  /\ Len(raw_frames) <= buffer_size
  /\ \A q \in QualityNames : Len(streams[q]) <= StreamQueueMaxsize

\* the raw queue was full when a frame arrived, and a quality queue is full now
C1_Witness ==
  /\ rawDropped > 0
  /\ Len(streams["hd"]) = StreamQueueMaxsize

\* C2: as long as nothing was taken from the raw queue, the capture loop is
\* never made to wait by it: a read that can happen can be published at once,
\* the queue holds min(N, C) of the N frames read and the other N - C were
\* dropped (queued + dropped = N).
C2_NoConsumerNeverWaits ==
  (taken = <<>>) =>
    /\ (AtRead /\ camera = "open" /\ reads < MaxLoadReads)
         => ENABLED CaptureFrame(MaxLoadReads)
    /\ Len(raw_frames) = Min(reads, buffer_size)
    /\ Len(raw_frames) + rawDropped = reads

\* all the frames were read with no consumer: C queued, the rest dropped
C2_Witness ==
  /\ taken = <<>>
  /\ reads = MaxLoadReads
  /\ Len(raw_frames) = buffer_size
  /\ rawDropped + buffer_size = MaxLoadReads

\* C3: a frame read while the raw queue is full is dropped: the queue keeps its
\* contents in their order, the frame counter is not advanced, and the capture
\* loop goes on to its next iteration with the camera as it was.
C3_DropNewestOnFull ==
  [][(reads' = reads + 1 /\ Len(raw_frames) >= buffer_size)
       => /\ raw_frames' = raw_frames
          /\ published' = published
          /\ frame_count' = frame_count
          /\ cpc' = "loop"
          /\ camera' = camera]_vars

\* a frame was dropped and the queue is still full
C3_Witness == rawDropped > 0 /\ Len(raw_frames) = buffer_size

\* item carries the number and the timestamp of a frame put on the raw queue
IsPublished(item) ==
  \E j \in 1..Len(published) :
    /\ published[j].frame_number = item.frame_number
    /\ published[j].timestamp = item.timestamp

\* C4: every encoded frame ever put on a quality queue, and every one waiting
\* on it, carries the frame number and the timestamp of a raw frame that was
\* put on the raw queue.
C4_NoFabricatedFrames ==
  \A q \in QualityNames :
    /\ \A i \in 1..Len(emitted[q]) : IsPublished(emitted[q][i])
    /\ \A i \in 1..Len(streams[q]) : IsPublished(streams[q][i])

\* a frame published after a drop (its timestamp is ahead of its number) was emitted
C4_Witness ==
  \E q \in QualityNames : \E i \in 1..Len(emitted[q]) :
    /\ rawDropped > 0
    /\ emitted[q][i].frame_number > 0
    /\ emitted[q][i].timestamp > emitted[q][i].frame_number + 1

\* C5: the frame numbers put on the raw queue are strictly increasing in the
\* order of publication (hence pairwise distinct), whatever reads, drops,
\* failed reads, reconnects and restart commands came in between.
C5_StrictlyIncreasing ==
  \A i, j \in 1..Len(published) :
    i < j => published[i].frame_number < published[j].frame_number

\* frames were published around a drop, a failed read and a restart command
C5_Witness ==
  /\ Len(published) >= 2
  /\ rawDropped > 0
  /\ readFails > 0
  /\ cmds > 0 /\ camera_control = <<>> /\ CaptureState = "Streaming"

\* C6: a frame put on the raw queue is taken by at most one encoder: no frame
\* number is taken twice, and two encoders never hold the same frame number.
C6_TakenOnce ==
  /\ \A i, j \in 1..Len(taken) : i # j => taken[i] # taken[j]
  /\ \A w1, w2 \in Encoders :
       (w1 # w2 /\ epc[w1] = "encode" /\ epc[w2] = "encode")
         => eframe[w1].frame_number # eframe[w2].frame_number

\* both encoders hold a frame at the same time
C6_Witness == \A w \in Encoders : epc[w] = "encode"

\* every frame number put on the raw queue appears exactly once on quality q,
\* tagged q, and nothing else does
ExactlyOncePerFrame(q) ==
  /\ Len(emitted[q]) = Len(published)
  /\ \A j \in 1..Len(published) :
       \E i \in 1..Len(emitted[q]) :
         emitted[q][i].frame_number = published[j].frame_number
  /\ \A i \in 1..Len(emitted[q]) : emitted[q][i].quality = q

C8_SkipsOnlyFailedProfile ==
  \A n \in DOMAIN outcome :
    Finished(n) => \A q \in QualityNames : outcome[n][q] # "none"

\* every frame put on the raw queue so far was taken and worked off, each
\* format of it being put or dropped
AllWorkedOff ==
  \A n \in 0..(MaxLoadReads - 1) :
    (Len(published) > n) =>
      (Finished(n) /\ \A q \in QualityNames : outcome[n][q] \in {"put", "dropped"})

\* C9: with "hd" never read, the encoders never wait on it: every frame put on
\* the raw queue is eventually taken and worked off, each format of it being
\* put or dropped (again and again, all the frames published so far are
\* worked off).
C9_NeverStalls == []<>AllWorkedOff

\* "hd" is full and refused a frame that "sd" received
C9_Witness ==
  /\ Len(streams["hd"]) = StreamQueueMaxsize
  /\ \E n \in DOMAIN outcome :
       /\ Finished(n)
       /\ outcome[n]["hd"] = "dropped"
       /\ outcome[n]["sd"] = "put"

RECURSIVE CyclePattern(_)
\* Connecting, Streaming, then k times Reconnecting, Connecting, Streaming
CyclePattern(k) ==
  IF k = 0 THEN <<"Connecting", "Streaming">>
  ELSE CyclePattern(k - 1) \o <<"Reconnecting", "Connecting", "Streaming">>

CountOf(seq, x) == Cardinality({i \in 1..Len(seq) : seq[i] = x})

\* C10: a failed read takes the supervisor from Streaming to Reconnecting, from
\* there to Connecting and then back to Streaming; as long as no
\* initialize_camera call used up its attempts, Disconnected is not reached and
\* there is one such cycle per failed read: after k failed reads and no command
\* the states were Connecting, Streaming, then k times Reconnecting, Connecting,
\* Streaming.
C10_ReconnectCycle ==
  /\ \A i \in 1..Len(capTrace) :
       capTrace[i] = "Reconnecting" =>
         /\ i > 1 /\ capTrace[i - 1] = "Streaming"
         /\ (i + 1 <= Len(capTrace)) => capTrace[i + 1] = "Connecting"
         /\ (i + 2 <= Len(capTrace) /\ initFails = 0) => capTrace[i + 2] = "Streaming"
  /\ (initFails = 0) =>
       /\ CountOf(capTrace, "Disconnected") = 0
       /\ CountOf(capTrace, "Reconnecting") = readFails
  /\ (initFails = 0 /\ cmds = 0 /\ cpc = "loop") =>
       capTrace = CyclePattern(readFails)

\* the reads failed MaxReadFails times, each reconnect opened the camera within
\* the cap, and the supervisor streams again
C10_Witness ==
  /\ initFails = 0 /\ cmds = 0
  /\ readFails = MaxReadFails
  /\ cpc = "loop"
  /\ camera = "open"
  /\ reads > 0

\* C11: when every open attempt fails from startup, initialize_camera gives up
\* after exactly max_attempts attempts (each failed attempt counts one, and
\* the call returns when the count is max_attempts); the supervisor is then
\* Disconnected: run has returned, no frame was read or published, and no
\* further open attempt or read is made.
C11_StartupExhaustion ==
  [][/\ (cpc = "init" => (reads = 0 /\ published = <<>>))
     /\ (cpc = "init" /\ cpc' = "init" /\ attempts' # attempts)
          => attempts' = attempts + 1
     /\ (cpc = "init" /\ cpc' # "init" /\ camera' # "open")
          => (attempts = max_attempts /\ cpc' = "failed")
     /\ (cpc = "failed")
          => UNCHANGED <<cpc, camera, attempts, openHandles, reads, published,
                         raw_frames, initFails>>]_vars

\* startup gave up: Disconnected, nothing published, no handle open
C11_Witness ==
  /\ cpc = "failed"
  /\ CaptureState = "Disconnected"
  /\ capTrace = <<"Connecting", "Disconnected">>
  /\ initFails = 1
  /\ published = <<>>
  /\ openHandles = 0

\* C12: when the initialize_camera call that follows a failed read uses up all
\* its attempts, the supervisor becomes Disconnected (run returns, so that the
\* process manager finds the process dead).
C12_ReconnectExhaustionDisconnects ==
  [][(cpc = "reinit" /\ initFails' = initFails + 1)
       => CaptureStateOf(cpc') = "Disconnected"]_vars

StopPutIn(states) == sinceStop.put /\ sinceStop.state \in states

\* the loop has exited with the camera released
StoppedAndClosed ==
  (cpc = "stopped") => (camera = "released" /\ openHandles = 0)

\* C14 as stated: after a stop signal put while Streaming at most one more
\* frame is read and published, and once the loop has exited the handle is
\* closed (opens and closes are balanced).
C14_StopWithinOneFrame ==
  /\ StopPutIn({"Streaming"}) => sinceStop.reads <= 1
  /\ StoppedAndClosed

\* C15: after a stop signal put while the supervisor is Connecting or
\* Reconnecting, at most one more open attempt is made.
C15_StopWithinOneAttempt ==
  StopPutIn({"Connecting", "Reconnecting"}) => sinceStop.opens <= 1

\* C16: when the initialize_camera call made for a restart command uses up all
\* its attempts, the supervisor becomes Disconnected instead of going on to
\* read.
C16_RestartExhaustionDisconnects ==
  [][(cpc = "restart_init" /\ initFails' = initFails + 1)
       => CaptureStateOf(cpc') = "Disconnected"]_vars

\* C17: a task a health sweep has found dead (its restart count being below
\* the cap) has been started a second time, exactly once more however many
\* sweeps found it dead.
C17_DeadTaskRestartedOnce ==
  \A name \in ProcessNames : deadSeen[name] > 0 => starts[name] = 2

\* the failure of a task has reached main: monitor_health is over
Surfaced == mpc # "monitor" \/ ~running

\* C18: a task is restarted at most restart_attempts times, and a task that
\* more sweeps than that have found dead is not merely logged again: its
\* failure is surfaced to the owning process.
C18_CapExceededSurfaced ==
  \A name \in ProcessNames :
    /\ starts[name] <= 1 + restart_attempts
    /\ deadSeen[name] > restart_attempts => Surfaced

\* 'stop' was sent to the task through a control channel
StopSentTo(name) == name = "camera" /\ sinceStop.put

\* C19: a task is sent SIGTERM or SIGKILL only after 'stop' was sent to it and
\* it was waited for.
C19_GracefulThenForced ==
  [][((sstep = "terminate" /\ sstep' = "join") \/
      (sstep = "check" /\ IsAlive(ProcessOrder[sidx])))
       => (StopSentTo(ProcessOrder[sidx]) /\ ProcessOrder[sidx] \in joined)]_vars

\* C20: once a shutdown that began while the supervisor was Streaming is over,
\* no camera handle is left unreleased.
C20_HandleClosedAfterShutdown ==
  (mpc = "exited" /\ StopPutIn({"Streaming"}))
    => (openHandles = 0 /\ camera # "open")

\* StreamEncoder.run has left its `while self.running` loop by itself. No
\* assignment makes self.running False and no channel carries a stop to an
\* encoder, so no action of the model leads here: an encoder ends by a signal
\* only (epc = "killed").
EncoderReturned(w) == epc[w] = "returned"

\* C21: once the manager has stopped the pipeline, every encoder worker has
\* left its loop on its own, having observed the stop.
C21_EncodersExitOnStop ==
  (mpc = "exited") => \A w \in Encoders : EncoderReturned(w)

\* C22: with one encoder worker, the frames put on each quality queue are in
\* strictly increasing frame_number order, whatever was dropped on full queues.
C22_SingleWorkerInOrder ==
  \A q \in QualityNames : \A i, j \in 1..Len(emitted[q]) :
    i < j => emitted[q][i].frame_number < emitted[q][j].frame_number

\* the single worker has worked off every frame, one of them dropped on the
\* full "hd" queue while "sd" went on
C22_Witness ==
  /\ \E n \in DOMAIN outcome :
       outcome[n]["hd"] = "dropped" /\ outcome[n]["sd"] = "put"
  /\ Len(emitted["sd"]) = MaxLoadReads

\* C23: a frame put on a quality queue is yielded at most once: the viewers
\* reading one quality never get the same frame twice, and every frame
\* yielded was put on that queue.
C23_YieldedAtMostOnce ==
  \A q \in QualityNames :
    /\ \A i, j \in 1..Len(yielded[q]) :
         i # j => yielded[q][i].frame_number # yielded[q][j].frame_number
    /\ \A i \in 1..Len(yielded[q]) : \E k \in 1..Len(emitted[q]) :
         emitted[q][k].frame_number = yielded[q][i].frame_number

\* two viewers of one quality have each been yielded a frame of it
C23_Witness ==
  \E q \in QualityNames : \E i, j \in 1..Len(yielded[q]) :
    yielded[q][i].viewer # yielded[q][j].viewer

\* the request was answered and the server is through with it
Done(r) == requests[r].pc = "done"
\* the request carried a file part
Carried(r) == requests[r].pc # "idle" /\ ~requests[r].posted.none
\* the request was answered once, with this status and error text
AnsweredWith(r, status, error) ==
  /\ Len(responses[r]) = 1
  /\ responses[r][1].status = status
  /\ responses[r][1].error = error
\* a file the middleware accepts: right field, allowed type, within the limit
Accepted(file) ==
  /\ ~file.none
  /\ file.fieldname = "recording"
  /\ file.mimetype \in allowedMimeTypes
  /\ file.size <= MAX_FILE_SIZE

\* C24: a request whose file (in the 'recording' field, of an allowed type) is
\* longer than MAX_FILE_SIZE is answered 413 'File too large', and nothing is
\* uploaded.
C24_TooLargeAnswered413 ==
  \A r \in Requests :
    (/\ Done(r) /\ Carried(r)
     /\ requests[r].posted.fieldname = "recording"
     /\ requests[r].posted.mimetype \in allowedMimeTypes
     /\ requests[r].posted.size > MAX_FILE_SIZE)
      => /\ AnsweredWith(r, 413, "File too large")
         /\ uploadCalls[r] = 0 /\ bucket[r].none

\* C25: a file whose MIME type is not allowed is never passed to uploadToGCS
\* and never stored, and its request is answered with an error response.
C25_DisallowedTypeNeverStored ==
  \A r \in Requests :
    (Carried(r) /\ requests[r].posted.mimetype \notin allowedMimeTypes)
      => /\ uploadCalls[r] = 0
         /\ bucket[r].none
         /\ Len(responses[r]) <= 1
         /\ Done(r) => (Len(responses[r]) = 1 /\ responses[r][1].status >= 400)

\* a file of a type not allowed, in the 'recording' field and within the size
\* limit, was answered while storage was configured
C25_Witness ==
  \E r \in Requests :
    /\ Done(r) /\ Carried(r) /\ gcsConfig = "config"
    /\ requests[r].posted.mimetype \notin allowedMimeTypes
    /\ requests[r].posted.fieldname = "recording"
    /\ requests[r].posted.size <= MAX_FILE_SIZE

C27_NoRecordingFileAnswered400 ==
  \A r \in Requests :
    (/\ Done(r)
     /\ requests[r].posted.none \/ requests[r].posted.fieldname # "recording")
      => AnsweredWith(r, 400, "No file uploaded")

\* C27: a request with no file part at all is answered 400 'No file uploaded'
\* whether or not storage is configured, and uploadToGCS is not called for it.
C27_NoFileAnswered400 ==
  \A r \in Requests :
    (requests[r].pc # "idle" /\ requests[r].posted.none)
      => /\ uploadCalls[r] = 0 /\ bucket[r].none
         /\ Done(r) => AnsweredWith(r, 400, "No file uploaded")

\* a request without a file part was answered while storage was not configured
C27_Witness ==
  \E r \in Requests :
    Done(r) /\ requests[r].posted.none /\ gcsConfig = "undefined"

\* C28: when initializeGCS failed at startup the server listens all the same,
\* /health reports gcsConfigured false, and a request with an accepted file is
\* answered 500 'Cloud storage not configured' with no upload attempt.
C28_UnconfiguredStorageAnswered500 ==
  gcsConfig = "undefined" =>
    /\ listening
    /\ Health.gcsConfigured = FALSE
    /\ \A r \in Requests :
         (requests[r].pc # "idle" /\ Accepted(requests[r].posted))
           => /\ uploadCalls[r] = 0 /\ bucket[r].none
              /\ Done(r) => AnsweredWith(r, 500, "Cloud storage not configured")

\* an accepted file was answered by a server whose storage is not configured
C28_Witness ==
  /\ gcsConfig = "undefined"
  /\ \E r \in Requests : Done(r) /\ Accepted(requests[r].posted)

\* C29: a request never has two responses, has exactly one when the server is
\* through with it, has none before, and while it is in flight the server
\* always has a next step for it.
C29_ExactlyOneResponse ==
  \A r \in Requests :
    /\ Len(responses[r]) <= 1
    /\ Done(r) <=> Len(responses[r]) = 1
    /\ requests[r].pc \notin {"idle", "done"} => ENABLED ServerStep(r)

\* every request was answered, one after a stream error and one with a 201
C29_Witness ==
  /\ \A r \in Requests : Done(r)
  /\ \E r \in Requests : requests[r].error = "stream error"
  /\ \E r \in Requests : AnsweredWith(r, 201, "")

\* C30: behind a failure status no object of the request is left in the
\* bucket.
C30_FailureLeavesNoObject ==
  \A r \in Requests :
    (Done(r) /\ Len(responses[r]) > 0 /\ responses[r][1].status >= 400)
      => bucket[r].none

\* a call of stop_all has returned
StopAllReturned == ~running /\ mpc # "stop_all"

C32_SecondStopAllIdempotent ==
  [][(caller' = "finally")
       => /\ camera_control' = camera_control
          /\ cpc' = cpc /\ epc' = epc /\ web' = web]_vars

\* C33: once stop_all has begun, the health monitor finds no process dead.
C33_NoDetectionAfterShutdown ==
  [][~running => deadSeen' = deadSeen]_vars

\* C34: the frames put on the raw queue carry the numbers 0, 1, 2, ... in the
\* order of publication, and the counter stands at the number of frames put,
\* whatever was skipped on a full queue or lost to failed reads.
C34_ConsecutiveNumbers ==
  /\ \A i \in 1..Len(published) : published[i].frame_number = i - 1
  /\ frame_count = Len(published)

\* reads failed, frames were skipped on the full queue, and the last frame put
\* came after a skipped one (its timestamp is ahead of its number)
C34_Witness ==
  /\ readFails > 0 /\ rawDropped > 0
  /\ Len(published) > buffer_size
  /\ published[Len(published)].timestamp > published[Len(published)].frame_number + 1

\* C35: when this.stream is null and no getUserMedia call is pending, no
\* stream handed out by getUserMedia has live tracks.
C35_NoLiveTrackWithoutStream ==
  (stream = 0 /\ gumPending = 0) => liveTracks = {}

\* C36: the recording indicator is active exactly when a MediaRecorder is
\* recording, and a recorder that is recording is this.mediaRecorder with
\* stopRecordingBtn enabled.
C36_IndicatorMatchesRecording ==
  /\ indicator <=> \E r \in Recordings : recorders[r].state = "recording"
  /\ \A r \in Recordings :
       recorders[r].state = "recording"
         => (mediaRecorder = r /\ ~disabled["stopRecordingBtn"])

\* C37: the file given to uploadFile for a recording holds the data delivered
\* by that recording's recorder, and nothing else.
C37_FileHoldsOwnChunks ==
  \A r \in Recordings : uploads[r].state # "none" => uploads[r].file = <<r>>

\* C38: a fetch that fails leaves recordings and the list as they are, hides
\* the progress bar and shows an error status; recordings and the list change
\* only with an ok response, whose data is put in front.
C38_ListChangesOnlyOnOk ==
  [][/\ \A r \in Recordings :
          (uploads[r].state = "pending" /\ uploads'[r].state = "failed")
            => /\ recordings' = recordings
               /\ recordingsList' = recordingsList
               /\ ~uploadProgress'
               /\ statusMessage' = [shown |-> TRUE, type |-> "error"]
     /\ \A r \in Recordings :
          (uploads[r].state = "pending" /\ uploads'[r].state = "ok")
            => /\ recordings' = <<ResultData(r)>> \o recordings
               /\ recordingsList' = <<ResultData(r)>> \o recordingsList
     /\ (recordings' # recordings \/ recordingsList' # recordingsList)
          => \E r \in Recordings :
               uploads[r].state = "pending" /\ uploads'[r].state = "ok"]_vars

\* one upload was answered ok and is in the list; another failed after it,
\* with the progress bar hidden and the error status shown
C38_Witness ==
  \E r, o \in Recordings :
    /\ uploads[r].state = "failed" /\ uploads[o].state = "ok"
    /\ recordings = <<ResultData(o)>>
    /\ ~uploadProgress /\ statusMessage.type = "error"

=============================================================================
